---- MODULE Spec2Model ----
(***************************************************************************)
(* A model of the CloudBioLinux deployment code:                           *)
(*   fabfile.py                  install_biolinux, install_custom,         *)
(*                               install_libraries and the installers      *)
(*   cloudbio/chef_utils.py      _parse_json, build_chef_properties        *)
(*   cloudbio/deploy/cloudman.py cloudman_launch                           *)
(* Text is modelled as a sequence of one-character strings.                *)
(***************************************************************************)
EXTENDS Integers, Sequences, FiniteSets, TLC

VARIABLES
    \* cloudbio/deploy/cloudman.py: cloudman_launch
    cm_image_id,      \* cloudman_options.get('image_id', None)
    cm_snaps_exists,  \* exists(snaps_path)
    cm_snaps,         \* the content of snaps.yaml: snaps["clouds"]
    cm_pc,            \* "start" | "done"
    cm_raised,        \* the exception cloudman_launch raised, or "none"
    cm_created,       \* the calls of vm_launcher.create_node, in order
    \* cloudbio/chef_utils.py: _parse_json
    js_input,         \* the text of the file, ''.join(f.readlines())
    js_content,       \* content, as the strip loop rewrites it
    js_pc,            \* "strip" (in the while loop) | "done"
    js_result,        \* what json.loads returned or raised
    \* the configuration and the code install_custom finds
    custom_yaml,      \* custom.yaml: the groups and their packages, in order
    custom_modules,   \* the modules of cloudbio.custom and their install_ functions
    \* fabfile.py: install_custom, called as a task of its own
    ic_p,             \* the argument p
    ic_pc,            \* "start" | "done"
    ic_raised,        \* the exception install_custom raised, or "none"
    ic_calls,         \* the installer functions called, in order
    ic_commands,      \* the remote commands install_custom itself ran
    \* the flavor and the remote host
    hook,             \* what env.flavor.rewrite_config_items does to a list
    r_installed,      \* installed.packages() of the host's R
    files,            \* the files of the remote working directory
    gems,             \* the gems "gem list" reports on the host
    \* fabfile.py: install_libraries(language)
    lib_language,     \* the argument language
    lib_config,       \* the lists of <language>-libs.yaml
    lib_pc,           \* "start" | "done"
    log,              \* what was done, in order: commands, hook calls, R calls
    \* fabfile.py: install_biolinux(target) -> _perform_install(target, flavor)
    target,           \* the argument target
    main_yaml,        \* main.yaml: packages, libraries, custom_ignore
    chef_yaml,        \* chef_recipes.yaml: the groups and their recipes
    env,              \* env.nixpkgs, env.is_ec2_image, env.distribution and
                      \* whether the provision library can be imported
    pc,               \* where _perform_install is: "start", a phase, "done", "failed"
    raised,           \* the exception that left _perform_install, or "none"
    pkg_install,      \* the locals of _perform_install, from _read_main_config
    lib_install,
    custom_ignore,
    ci_packages,      \* _custom_installs: packages, after the ignore filter
    ci_pkg_to_group,  \* _custom_installs: pkg_to_group, as given to install_custom
    chef_packages,    \* _provision_chef_recipes: packages, after the ignore filter
    \* cloudbio/chef_utils.py: build_chef_properties(env, config_file)
    bc_env,           \* env: its entries, a key, a value and whether it is a str
    bc_todo,          \* the entries env.iteritems() has yet to give
    bc_props,         \* json_properties: the pairs of a dict
    bc_pc,            \* "parse" | "loop" | "done" | "failed"
    bc_raised         \* the exception build_chef_properties raised, or "none"

cmVars == <<cm_image_id, cm_snaps_exists, cm_snaps, cm_pc, cm_raised, cm_created>>

jsVars == <<js_input, js_content, js_pc, js_result>>

cfgVars == <<custom_yaml, custom_modules>>
icVars == <<ic_p, ic_pc, ic_raised, ic_calls, ic_commands>>

hostVars == <<hook, r_installed, files, gems>>
libVars == <<lib_language, lib_config, lib_pc, log>>

piVars == <<target, main_yaml, chef_yaml, env, pc, raised, pkg_install, lib_install,
            custom_ignore, ci_packages, ci_pkg_to_group, chef_packages>>

bcVars == <<bc_env, bc_todo, bc_props, bc_pc, bc_raised>>

vars == <<cmVars, jsVars, cfgVars, icVars, hostVars, libVars, piVars, bcVars>>

----------------------------------------------------------------------------
(* Text helpers: str.lower, str.replace                                     *)

\* The upper-case letters the model's texts use, with their lower-case form.
LowerChar(c) ==
    CASE c = "A" -> "a"
      [] c = "B" -> "b"
      [] c = "E" -> "e"
      [] c = "N" -> "n"
      [] c = "P" -> "p"
      [] c = "S" -> "s"
      [] c = "U" -> "u"
      [] OTHER -> c

\* str.lower()
Lower(s) == [i \in 1..Len(s) |-> LowerChar(s[i])]

\* Python's None
None == "None"

----------------------------------------------------------------------------
(* cloudbio/deploy/cloudman.py                                              *)

MaxClouds == 2
MaxRegions == 2
MaxDeployments == 2

SeqUpTo(S, n) == UNION {[1..k -> S] : k \in 0..n}

UseSnaps == <<"_", "_", "u", "s", "e", "_", "s", "n", "a", "p", "s", "_", "_">>
UseSnapsUpper == <<"_", "_", "U", "S", "E", "_", "S", "N", "A", "P", "S", "_", "_">>
AnImage == <<"a", "m", "i">>

\* The deployments of a region of snaps.yaml: the k-th names the image mi<k>.
Digit(k) == CASE k = 0 -> "0" [] k = 1 -> "1" [] k = 2 -> "2" [] k = 3 -> "3"
              [] k = 4 -> "4" [] OTHER -> "9"
DeploymentLists == {[d \in 1..n |-> [default_mi |-> <<"m", "i", Digit(d)>>]] : n \in 0..MaxDeployments}
Regions == {[deployments |-> ds] : ds \in DeploymentLists}
Clouds == {[regions |-> rs] : rs \in SeqUpTo(Regions, MaxRegions)}
Manifests == SeqUpTo(Clouds, MaxClouds)

CmIdle ==
    /\ cm_image_id = None /\ cm_snaps_exists = FALSE /\ cm_snaps = <<>>
    /\ cm_pc = "idle" /\ cm_raised = "none" /\ cm_created = <<>>

CmInit ==
    /\ cm_image_id \in {None, AnImage, UseSnaps, UseSnapsUpper}
    /\ cm_snaps_exists \in BOOLEAN
    /\ cm_snaps \in Manifests
    /\ (~cm_snaps_exists => cm_snaps = <<>>)
    /\ cm_pc = "start"
    /\ cm_raised = "none"
    /\ cm_created = <<>>

\* str(image_id): None prints as the text "None"
Str(x) == IF x = None THEN <<"N", "o", "n", "e">> ELSE x

\* ResolveImage with the region count checked as "at least one" only.
ResolveImage_firstRegion(image_id, snaps_exists, snaps) ==
    IF Lower(Str(image_id)) = UseSnaps
    THEN IF ~snaps_exists
         THEN [raised |-> "NoSnapsFile", image_id |-> None]
         ELSE IF Len(snaps) # 1
         THEN [raised |-> "NotOneCloud", image_id |-> None]
         ELSE IF Len(snaps[1].regions) < 1
         THEN [raised |-> "NotOneRegion", image_id |-> None]
         ELSE IF Len(snaps[1].regions[1].deployments) # 1
         THEN [raised |-> "NotOneDeployment", image_id |-> None]
         ELSE [raised |-> "none",
               image_id |-> snaps[1].regions[1].deployments[1].default_mi]
    ELSE [raised |-> "none", image_id |-> image_id]

\* The part of cloudman_launch that picks the image: [raised, image_id]
ResolveImage(image_id, snaps_exists, snaps) ==
    IF Lower(Str(image_id)) = UseSnaps
    THEN IF ~snaps_exists
         THEN [raised |-> "NoSnapsFile", image_id |-> None]
         ELSE IF Len(snaps) # 1
         THEN [raised |-> "NotOneCloud", image_id |-> None]
         ELSE IF Len(snaps[1].regions) # 1
         THEN [raised |-> "NotOneRegion", image_id |-> None]
         ELSE IF Len(snaps[1].regions[1].deployments) # 1
         THEN [raised |-> "NotOneDeployment", image_id |-> None]
         ELSE [raised |-> "none",
               image_id |-> snaps[1].regions[1].deployments[1].default_mi]
    ELSE [raised |-> "none", image_id |-> image_id]

cloudman_launch ==
    /\ cm_pc = "start"
    /\ LET r == ResolveImage(cm_image_id, cm_snaps_exists, cm_snaps)
       IN  /\ cm_raised' = r.raised
           /\ cm_created' = IF r.raised = "none"
                            THEN Append(cm_created, [name |-> "cloudman", image_id |-> r.image_id])
                            ELSE cm_created
    /\ cm_pc' = "done"
    /\ UNCHANGED <<cm_image_id, cm_snaps_exists, cm_snaps>>
    /\ UNCHANGED <<jsVars, cfgVars, icVars, hostVars, libVars, piVars, bcVars>>

CmNext == cloudman_launch

(* ---- C9 ---- *)

\* The three counts of the manifest: clouds, regions of the first cloud,
\* deployments of its first region (0 where there is no such list).
CloudCount == Len(cm_snaps)
RegionCount == IF CloudCount >= 1 THEN Len(cm_snaps[1].regions) ELSE 0
DeploymentCount ==
    IF RegionCount >= 1 THEN Len(cm_snaps[1].regions[1].deployments) ELSE 0

RECURSIVE DeploymentsOfRegions(_)
DeploymentsOfRegions(rs) ==
    IF rs = <<>> THEN 0
    ELSE Len(Head(rs).deployments) + DeploymentsOfRegions(Tail(rs))
RECURSIVE DeploymentsOfClouds(_)
DeploymentsOfClouds(cs) ==
    IF cs = <<>> THEN 0
    ELSE DeploymentsOfRegions(Head(cs).regions) + DeploymentsOfClouds(Tail(cs))
\* Every deployment of the manifest, in whatever cloud and region.
TotalDeployments == DeploymentsOfClouds(cm_snaps)

AsksForSnaps == Lower(Str(cm_image_id)) = UseSnaps

\* C9: with image_id = __use_snaps__, unless snaps.yaml exists and defines
\* exactly one cloud, one region in it and one deployment in that region, the
\* launch raises and create_node is never called; when a node is created its
\* image is the only deployment the manifest holds.
C9_SnapsNeedExactlyOne ==
    (cm_pc = "done" /\ AsksForSnaps) =>
        /\ (~cm_snaps_exists \/ CloudCount # 1 \/ RegionCount # 1 \/ DeploymentCount # 1)
              => (cm_raised # "none" /\ cm_created = <<>>)
        /\ (cm_created # <<>>) =>
              /\ Len(cm_created) = 1
              /\ TotalDeployments = 1
              /\ cm_created[1].image_id = cm_snaps[1].regions[1].deployments[1].default_mi

\* A launch on a manifest of one cloud with two regions has raised.
C9_Witness ==
    /\ cm_pc = "done" /\ AsksForSnaps /\ cm_snaps_exists
    /\ CloudCount = 1 /\ RegionCount = 2 /\ DeploymentCount = 1
    /\ cm_raised = "NotOneRegion" /\ cm_created = <<>>

----------------------------------------------------------------------------
(* cloudbio/chef_utils.py: _comment_re and _parse_json                      *)

\* [^\S\n]: white space other than the newline
IsHSpace(c) == c \in {" ", "\t", "\r"}

\* The first index >= i of s that holds no [^\S\n] character (Len(s)+1 if none)
RECURSIVE SkipHSpace(_, _)
SkipHSpace(s, i) ==
    IF i <= Len(s) /\ IsHSpace(s[i]) THEN SkipHSpace(s, i + 1) ELSE i

\* s holds the two characters a, b at i, i+1
At2(s, i, a, b) == i >= 1 /\ i + 1 <= Len(s) /\ s[i] = a /\ s[i + 1] = b

\* \*(.*?)\*/ : the lazy .*? stops at the first "*/" at or after i (0 if none)
RECURSIVE FirstClose(_, _)
FirstClose(s, i) ==
    IF i + 1 > Len(s) THEN 0
    ELSE IF At2(s, i, "*", "/") THEN i ELSE FirstClose(s, i + 1)

\* /[^\n]* : the first index >= i that holds a newline (Len(s)+1 if none)
RECURSIVE LineEnd(_, _)
LineEnd(s, i) ==
    IF i <= Len(s) /\ s[i] # "\n" THEN LineEnd(s, i + 1) ELSE i

\* FirstClose with a greedy .* : the last "*/" of the text
RECURSIVE LastClose(_, _)
LastClose(s, i) ==
    IF i + 1 > Len(s) THEN 0
    ELSE LET later == LastClose(s, i + 1)
         IN  IF later # 0 THEN later
             ELSE IF At2(s, i, "*", "/") THEN i ELSE 0

\* MatchEnd with the block comment's .*? made greedy
MatchEnd_greedy(s, i) ==
    LET j == SkipHSpace(s, i)
    IN  IF At2(s, j, "/", "*") /\ LastClose(s, j + 2) # 0
        THEN SkipHSpace(s, LastClose(s, j + 2) + 2)
        ELSE IF At2(s, j, "/", "/") THEN LineEnd(s, j + 2)
        ELSE 0

\* _comment_re.match at index i:  (^)?[^\S\n]*/(?:\*(.*?)\*/[^\S\n]*|/[^\n]*)($)?
\* The index after the match, or 0 when the pattern does not match at i.
\* (^)? and ($)? are optional and of width 0; "/" is no [^\S\n] character, so
\* the greedy [^\S\n]* can only end where the run of such characters ends.
MatchEnd(s, i) ==
    LET j == SkipHSpace(s, i)
    IN  IF At2(s, j, "/", "*") /\ FirstClose(s, j + 2) # 0
        THEN SkipHSpace(s, FirstClose(s, j + 2) + 2)
        ELSE IF At2(s, j, "/", "/") THEN LineEnd(s, j + 2)
        ELSE 0

\* _comment_re.search(content): the leftmost index the pattern matches at
\* (match.start()), or 0 for no match
RECURSIVE SearchFrom(_, _)
SearchFrom(s, i) ==
    IF i > Len(s) THEN 0
    ELSE IF MatchEnd(s, i) # 0 THEN i ELSE SearchFrom(s, i + 1)
Search(s) == SearchFrom(s, 1)

\* content[:match.start()] + content[match.end():]
Cut(s, start, end) == SubSeq(s, 1, start - 1) \o SubSeq(s, end, Len(s))

(* json.loads, for the JSON texts the model reads: objects, strings without *)
(* escapes and unsigned integers.                                           *)

JNum(n) == [type |-> "number", num |-> n, str |-> <<>>, members |-> {}]
JStr(t) == [type |-> "string", num |-> 0, str |-> t, members |-> {}]
JObj(m) == [type |-> "object", num |-> 0, str |-> <<>>, members |-> m]
JValueError == [type |-> "ValueError", num |-> 0, str |-> <<>>, members |-> {}]
JNotLoaded == [type |-> "none", num |-> 0, str |-> <<>>, members |-> {}]

IsWs(c) == c \in {" ", "\t", "\n", "\r"}
IsDigit(c) == c \in {"0", "1", "2", "3", "4", "5", "6", "7", "8", "9"}
DigitVal(c) ==
    CASE c = "0" -> 0 [] c = "1" -> 1 [] c = "2" -> 2 [] c = "3" -> 3
      [] c = "4" -> 4 [] c = "5" -> 5 [] c = "6" -> 6 [] c = "7" -> 7
      [] c = "8" -> 8 [] OTHER -> 9

RECURSIVE SkipWs(_, _)
SkipWs(s, i) == IF i <= Len(s) /\ IsWs(s[i]) THEN SkipWs(s, i + 1) ELSE i

Parsed(v, next) == [ok |-> TRUE, val |-> v, next |-> next]
NoParse == [ok |-> FALSE, val |-> JValueError, next |-> 0]

\* the digits from i on, read as a number that so far is acc
RECURSIVE ParseDigits(_, _, _)
ParseDigits(s, i, acc) ==
    IF i <= Len(s) /\ IsDigit(s[i])
    THEN ParseDigits(s, i + 1, 10 * acc + DigitVal(s[i]))
    ELSE Parsed(JNum(acc), i)

\* a number starts at i; a leading 0 is a number of its own
ParseNumber(s, i) ==
    IF s[i] = "0" THEN Parsed(JNum(0), i + 1) ELSE ParseDigits(s, i, 0)

\* the index of the quote closing the string whose text starts at i; 0 when
\* there is none or a control character comes first
RECURSIVE CloseQuote(_, _)
CloseQuote(s, i) ==
    IF i > Len(s) \/ s[i] \in {"\n", "\t", "\r"} THEN 0
    ELSE IF s[i] = "\"" THEN i ELSE CloseQuote(s, i + 1)

ParseString(s, i) ==
    LET k == CloseQuote(s, i + 1)
    IN  IF k = 0 THEN NoParse ELSE Parsed(JStr(SubSeq(s, i + 1, k - 1)), k + 1)

\* dict[key] = value: a later pair replaces an earlier one of the same key
SetMember(m, key, value) ==
    {e \in m : e.key # key} \cup {[key |-> key, value |-> value]}

RECURSIVE ParseValue(_, _)
RECURSIVE ParseMembers(_, _, _)

\* the pairs of an object from i on (a string is due at i), added to acc
ParseMembers(s, i, acc) ==
    IF ~(i <= Len(s) /\ s[i] = "\"") THEN NoParse
    ELSE LET k == ParseString(s, i)
             c == SkipWs(s, k.next)
         IN  IF ~k.ok \/ ~(c <= Len(s) /\ s[c] = ":") THEN NoParse
             ELSE LET v == ParseValue(s, SkipWs(s, c + 1))
                      e == SkipWs(s, v.next)
                      m == SetMember(acc, k.val.str, v.val)
                  IN  IF ~v.ok \/ e > Len(s) THEN NoParse
                      ELSE IF s[e] = "}" THEN Parsed(JObj(m), e + 1)
                      ELSE IF s[e] = "," THEN ParseMembers(s, SkipWs(s, e + 1), m)
                      ELSE NoParse

ParseObject(s, i) ==
    LET j == SkipWs(s, i + 1)
    IN  IF j <= Len(s) /\ s[j] = "}" THEN Parsed(JObj({}), j + 1)
        ELSE ParseMembers(s, j, {})

ParseValue(s, i) ==
    IF i > Len(s) THEN NoParse
    ELSE IF IsDigit(s[i]) THEN ParseNumber(s, i)
    ELSE IF s[i] = "\"" THEN ParseString(s, i)
    ELSE IF s[i] = "{" THEN ParseObject(s, i)
    ELSE NoParse

\* json.loads(content): the value, or JValueError
ParseJson(s) ==
    LET v == ParseValue(s, SkipWs(s, 1))
    IN  IF v.ok /\ SkipWs(s, v.next) = Len(s) + 1 THEN v.val ELSE JValueError

(* The files read                                                           *)

MaxLen == 5

JsonChars == {"/", "*", " ", "\n", "1"}

\* {"a": 1 /* x */, "b": 2 // y<newline>}
ExampleJson ==
    <<"{", "\"", "a", "\"", ":", " ", "1", " ", "/", "*", " ", "x", " ", "*", "/",
      ",", " ", "\"", "b", "\"", ":", " ", "2", " ", "/", "/", " ", "y", "\n", "}">>
\* a block comment over two lines, a tab before a line comment
BlockJson ==
    <<"{", " ", "/", "*", " ", "x", "\n", " ", "y", " ", "*", "/", " ", "\n",
      "\"", "a", "\"", ":", "1", "0", "\t", "/", "/", "*", "/", "\n", "}">>
\* a number, a blank, a block comment, a number
GluedJson == <<"1", " ", "/", "*", "*", "/", "1">>
\* comment markers inside a string literal
StringJson == <<"{", "\"", "a", "\"", ":", "\"", "/", "/", "\"", "}", "\n">>
\* no comment at all
PlainJson == <<"{", "\"", "a", "\"", ":", "{", "}", ",", "\"", "a", "\"", ":", "2", "}">>

JsonInputs ==
    SeqUpTo(JsonChars, MaxLen)
        \cup {ExampleJson, BlockJson, GluedJson, StringJson, PlainJson}

JsIdle ==
    /\ js_input = <<>> /\ js_content = <<>> /\ js_pc = "idle"
    /\ js_result = JNotLoaded

JsInit ==
    /\ js_input \in JsonInputs
    /\ js_content = js_input
    /\ js_pc = "strip"
    /\ js_result = JNotLoaded

\* One pass of the while loop of _parse_json: a match is cut out.
StripComment ==
    /\ js_pc = "strip"
    /\ Search(js_content) # 0
    /\ LET start == Search(js_content)
       IN  js_content' = Cut(js_content, start, MatchEnd(js_content, start))
    /\ UNCHANGED <<js_input, js_pc, js_result>>
    /\ UNCHANGED <<cmVars, cfgVars, icVars, hostVars, libVars, piVars, bcVars>>

\* The loop ends with no match left: return json.loads(content)
LoadJson ==
    /\ js_pc = "strip"
    /\ Search(js_content) = 0
    /\ js_result' = ParseJson(js_content)
    /\ js_pc' = "done"
    /\ UNCHANGED <<js_input, js_content>>
    /\ UNCHANGED <<cmVars, cfgVars, icVars, hostVars, libVars, piVars, bcVars>>

JsNext == StripComment \/ LoadJson

(* ---- C6 ---- *)

\* A comment opens at j: "//", or "/*" with a "*/" after it.
OpensComment(s, j) ==
    \/ At2(s, j, "/", "/")
    \/ At2(s, j, "/", "*") /\ \E k \in (j + 2)..(Len(s) - 1) : At2(s, k, "*", "/")

IsLineComment(c) ==
    /\ Len(c) >= 2 /\ c[1] = "/" /\ c[2] = "/"
    /\ \A i \in 1..Len(c) : c[i] # "\n"

\* "/*" up to the first "*/" that follows it
IsBlockComment(c) ==
    /\ Len(c) >= 4 /\ c[1] = "/" /\ c[2] = "*"
    /\ c[Len(c) - 1] = "*" /\ c[Len(c)] = "/"
    /\ \A k \in 3..(Len(c) - 2) : ~At2(c, k, "*", "/")

AllHSpace(s) == \A i \in 1..Len(s) : IsHSpace(s[i])

\* new is old with its leftmost comment cut out, together with the blanks
\* (other than newlines) right before it and, for a block comment, right
\* after it; every other character is kept, in place.
CutsOneComment(old, new) ==
    \E a \in 1..Len(old) : \E c \in a..Len(old) :
    \E d \in (c + 1)..Len(old) : \E e \in d..Len(old) :
        /\ new = SubSeq(old, 1, a - 1) \o SubSeq(old, e + 1, Len(old))
        /\ AllHSpace(SubSeq(old, a, c - 1))
        /\ AllHSpace(SubSeq(old, d + 1, e))
        /\ a = 1 \/ ~IsHSpace(old[a - 1])
        /\ \A j \in 1..(c - 1) : ~OpensComment(old, j)
        /\ \/ /\ IsLineComment(SubSeq(old, c, d))
              /\ e = d
              /\ d = Len(old) \/ old[d + 1] = "\n"
           \/ /\ IsBlockComment(SubSeq(old, c, d))
              /\ e = Len(old) \/ ~IsHSpace(old[e + 1])

ExampleValue ==
    JObj({[key |-> <<"a">>, value |-> JNum(1)], [key |-> <<"b">>, value |-> JNum(2)]})

\* the text outside the comments: every character that is neither in a
\* "//" comment (up to the newline) nor in a closed "/* */" comment
RECURSIVE OutsideComments(_, _)
OutsideComments(s, i) ==
    IF i > Len(s) THEN <<>>
    ELSE IF At2(s, i, "/", "/") THEN OutsideComments(s, LineEnd(s, i + 2))
    ELSE IF At2(s, i, "/", "*") /\ FirstClose(s, i + 2) # 0
         THEN OutsideComments(s, FirstClose(s, i + 2) + 2)
    ELSE <<s[i]>> \o OutsideComments(s, i + 1)

\* C6 as stated: every comment is stripped and what json.loads is given is
\* the text outside the comments, unchanged; the example yields {a: 1, b: 2}.
C6_Original ==
    js_pc = "done" =>
        /\ \A j \in 1..Len(js_content) : ~OpensComment(js_content, j)
        /\ js_result = ParseJson(OutsideComments(js_input, 1))
        /\ js_input = ExampleJson => js_result = ExampleValue

\* C6, amended: each pass of the strip loop cuts out the leftmost comment
\* together with the blanks (other than newlines) right before it and, for a
\* block comment, right after it, and nothing else; the loop ends on every
\* input (each pass shortens the text by two characters or more) and leaves
\* no "//" and no closed "/* */" in the text json.loads is given; the example
\* yields {a: 1, b: 2}.
C6_StripsCommentsAndBlanks ==
    /\ [](js_pc = "done" =>
            /\ \A j \in 1..Len(js_content) : ~OpensComment(js_content, j)
            /\ js_input = ExampleJson => js_result = ExampleValue)
    /\ [][/\ js_content' # js_content => CutsOneComment(js_content, js_content')
          /\ js_pc' = "strip" => Len(js_content') + 2 <= Len(js_content)]_vars

\* The example has been read, both its comments stripped in two passes.
C6_Witness ==
    /\ js_input = ExampleJson /\ js_pc = "done"
    /\ Len(js_content) = Len(js_input) - 13
    /\ js_result = ExampleValue

----------------------------------------------------------------------------
(* fabfile.py: install_custom                                               *)

\* str.replace(old, new), for one-character old and new
Replace(s, old, new) == [i \in 1..Len(s) |-> IF s[i] = old THEN new ELSE s[i]]

\* the names of packages, groups and modules
n_a == <<"a">>
n_A == <<"A">>
n_b == <<"b">>
n_a_b == <<"a", "_", "b">>
n_ab == <<"a", "-", "b">>
n_AB == <<"A", "-", "B">>
n_g == <<"g">>
n_h == <<"h">>

\* to_install: None (every group) or a list of group names
AllGroups == [all |-> TRUE, groups |-> <<>>]
Groups(l) == [all |-> FALSE, groups |-> l]
Takes(to_install, group) ==
    to_install.all \/ \E i \in 1..Len(to_install.groups) : to_install.groups[i] = group

\* cloudbio.package.shared._yaml_to_packages(yaml, to_install): the packages
\* of the groups to install (of every group when to_install is None), in the
\* order of the file, and the group of every such package.
RECURSIVE YamlPackages(_, _)
YamlPackages(yaml, to_install) ==
    IF yaml = <<>> THEN <<>>
    ELSE (IF Takes(to_install, Head(yaml).group) THEN Head(yaml).members ELSE <<>>)
         \o YamlPackages(Tail(yaml), to_install)

RECURSIVE YamlGroups(_, _, _)
YamlGroups(yaml, to_install, acc) ==
    IF yaml = <<>> THEN acc
    ELSE LET grp == Head(yaml)
             take == Takes(to_install, grp.group)
             here == {grp.members[i] : i \in 1..Len(grp.members)}
             next == IF take
                     THEN [q \in DOMAIN acc \cup here |->
                              IF q \in here THEN grp.group ELSE acc[q]]
                     ELSE acc
         IN  YamlGroups(Tail(yaml), to_install, next)

EmptyMap == [q \in {} |-> <<>>]

YamlToPackages(yaml, to_install) ==
    [packages |-> YamlPackages(yaml, to_install),
     pkg_to_group |-> YamlGroups(yaml, to_install, EmptyMap)]

\* __import__("cloudbio.custom.%s" % mod_name) finds the module
HasModule(modules, mod_name) == \E m \in modules : m.name = mod_name
\* getattr(mod, "install_%s" % p) finds the function
HasFunction(modules, mod_name, p) ==
    \E m \in modules : m.name = mod_name /\ p \in m.fns

\* mod_name with the hyphens of p translated, as for the function name
ModName_translated(p, pkg_to_group) ==
    IF p \in DOMAIN pkg_to_group THEN pkg_to_group[p] ELSE Replace(p, "-", "_")

\* mod_name = pkg_to_group[p] if p in pkg_to_group else p
ModName(p, pkg_to_group) ==
    IF p \in DOMAIN pkg_to_group THEN pkg_to_group[p] ELSE p

\* The format argument pkg_to_group[p] of the two "Need to write ..." errors is
\* evaluated first: for p not a key it raises KeyError in place of ImportError.
NeedToWrite(p, pkg_to_group) ==
    IF p \in DOMAIN pkg_to_group THEN "ImportError" ELSE "KeyError"

\* install_custom from p = p.lower() on: what is raised and what is called
InstallCustom(p0, pkg_to_group, modules) ==
    LET p == Lower(p0)
        mod_name == ModName(p, pkg_to_group)
        fn == Replace(p, "-", "_")
    IN  IF ~HasModule(modules, mod_name)
        THEN [raised |-> NeedToWrite(p, pkg_to_group), calls |-> <<>>]
        ELSE IF ~HasFunction(modules, mod_name, fn)
        THEN [raised |-> NeedToWrite(fn, pkg_to_group), calls |-> <<>>]
        ELSE [raised |-> "none", calls |-> <<[mod |-> mod_name, fn |-> fn]>>]

CustomYamls ==
    {<<[group |-> n_g, members |-> m1], [group |-> n_h, members |-> m2]>> :
        m1 \in {<<>>, <<n_a>>, <<n_ab, n_a>>},
        m2 \in {<<>>, <<n_b>>, <<n_a_b, n_b>>}}

FnSets == SUBSET {n_a, n_a_b}
ModuleWorlds ==
    {UNION {g, a, ab} :
        g \in {{}} \cup {{[name |-> n_g, fns |-> f]} : f \in FnSets},
        a \in {{}} \cup {{[name |-> n_a, fns |-> f]} : f \in FnSets},
        ab \in {{}} \cup {{[name |-> n_ab, fns |-> f]} : f \in FnSets}}

CfgIdle == custom_yaml = <<>> /\ custom_modules = {}

IcIdle ==
    /\ ic_p = <<>> /\ ic_pc = "idle" /\ ic_raised = "none"
    /\ ic_calls = <<>> /\ ic_commands = <<>>

IcInit ==
    /\ custom_yaml \in CustomYamls
    /\ custom_modules \in ModuleWorlds
    /\ ic_p \in {n_a, n_A, n_b, n_ab, n_AB, n_a_b}
    /\ ic_pc = "start"
    /\ ic_raised = "none"
    /\ ic_calls = <<>>
    /\ ic_commands = <<>>

\* fab install_custom:p  (automated = False: custom.yaml is read in full)
install_custom ==
    /\ ic_pc = "start"
    /\ LET cfg == YamlToPackages(custom_yaml, AllGroups)
           r == InstallCustom(ic_p, cfg.pkg_to_group, custom_modules)
       IN  /\ ic_raised' = r.raised
           /\ ic_calls' = ic_calls \o r.calls
    /\ ic_pc' = "done"
    /\ UNCHANGED <<ic_p, ic_commands>>
    /\ UNCHANGED <<cmVars, jsVars, cfgVars, hostVars, libVars, piVars, bcVars>>

IcNext == install_custom

(* ---- C4, C10 ---- *)

\* The resolution of the task's argument, in the words of the docstring:
\* the package-to-group mapping of all of custom.yaml, the lower-cased name,
\* the module of its group or of its own name, the function install_<name>.
IcMap == YamlToPackages(custom_yaml, AllGroups).pkg_to_group
IcName == Lower(ic_p)
IcModule == IF IcName \in DOMAIN IcMap THEN IcMap[IcName] ELSE IcName
IcFunction == [i \in 1..Len(IcName) |-> IF IcName[i] = "-" THEN "_" ELSE IcName[i]]
IcResolves ==
    \E m \in custom_modules : m.name = IcModule /\ IcFunction \in m.fns

\* C4: install_custom of a name that resolves to no module or to a module
\* without the install_ function fails with the ImportError "Need to write
\* ...", calls no installer and runs no remote command.
C4_UnregisteredIsImportError ==
    (ic_pc = "done" /\ ~IcResolves) =>
        /\ ic_raised = "ImportError"
        /\ ic_calls = <<>>
        /\ ic_commands = <<>>

\* C10: install_custom lower-cases p, looks the module up under the group
\* mapped to p, or under p itself (hyphens kept) when p is no key of the
\* mapping, looks up install_<p with "-" as "_"> in it and calls it exactly
\* once; so a package absent from custom.yaml installs whenever module p with
\* that function exists.
C10_Resolution ==
    ic_pc = "done" =>
        /\ IF IcResolves
           THEN ic_raised = "none" /\ ic_calls = <<[mod |-> IcModule, fn |-> IcFunction]>>
           ELSE ic_raised # "none" /\ ic_calls = <<>>
        /\ (ic_p = n_AB /\ n_ab \notin DOMAIN IcMap
                /\ [name |-> n_ab, fns |-> {n_a_b}] \in custom_modules)
             => ic_calls = <<[mod |-> n_ab, fn |-> n_a_b]>>
        /\ (ic_p = n_A /\ n_a \in DOMAIN IcMap
                /\ [name |-> n_g, fns |-> {n_a}] \in custom_modules)
             => ic_calls = <<[mod |-> n_g, fn |-> n_a]>>

\* "A-B", in no group of custom.yaml, was installed by cloudbio.custom.a-b's
\* install_a_b.
C10_Witness ==
    /\ ic_pc = "done" /\ ic_p = n_AB /\ n_ab \notin DOMAIN IcMap
    /\ ic_raised = "none"
    /\ ic_calls = <<[mod |-> n_ab, fn |-> n_a_b]>>

----------------------------------------------------------------------------
(* fabfile.py: the library installers                                       *)

MaxPkgs == 2

PkgNames == {"p1", "p2", "p3"}
\* the package lists of a <language>-libs.yaml
PkgLists == SeqUpTo({"p1", "p2"}, MaxPkgs)

\* One entry of the log: a remote command, a hook call or a call made by R.
Ev(op, arg) == [op |-> op, arg |-> arg, items |-> <<>>]
EvL(op, arg, items) == [op |-> op, arg |-> arg, items |-> items]

RECURSIVE Reverse(_)
Reverse(s) == IF s = <<>> THEN <<>> ELSE Append(Reverse(Tail(s)), Head(s))

\* env.flavor.rewrite_config_items(name, items): the flavor may keep, reorder,
\* drop or rename the entries.
HookModes == {"keep", "reorder", "drop", "rename"}
Rewrite(mode, items) ==
    CASE mode = "keep" -> items
      [] mode = "reorder" -> Reverse(items)
      [] mode = "drop" -> IF items = <<>> THEN <<>> ELSE Tail(items)
      [] OTHER -> [i \in 1..Len(items) |-> IF items[i] = "p1" THEN "p3" ELSE items[i]]

\* for x in env.flavor.rewrite_config_items(name, items): cmd(x)
HookThenEach(mode, name, items, op) ==
    LET got == Rewrite(mode, items)
    IN  <<EvL("rewrite_config_items", name, items)>>
            \o [i \in 1..Len(got) |-> Ev(op, got[i])]

\* for x in items: cmd(x)
Each(items, op) == [i \in 1..Len(items) |-> Ev(op, items[i])]

(* _r_library_installer                                                     *)

OutFile == "install_packages.R"

\* update.or.install with the test reversed
UpdateOrInstall_reversed(pname, installed, install_fn) ==
    IF pname \notin installed
    THEN [log |-> <<Ev("R update.packages", pname)>>, installed |-> installed]
    ELSE [log |-> <<Ev(install_fn, pname)>>, installed |-> installed \cup {pname}]

\* update.or.install(pname) of the generated script:
\*   if (pname %in% installed.packages()) update.packages(...) else install.fn(pname)
UpdateOrInstall(pname, installed, install_fn) ==
    IF pname \in installed
    THEN [log |-> <<Ev("R update.packages", pname)>>, installed |-> installed]
    ELSE [log |-> <<Ev(install_fn, pname)>>, installed |-> installed \cup {pname}]

\* lapply(pkgs, installer)
RECURSIVE Lapply(_, _, _)
Lapply(pkgs, installed, install_fn) ==
    IF pkgs = <<>> THEN [log |-> <<>>, installed |-> installed]
    ELSE LET one == UpdateOrInstall(Head(pkgs), installed, install_fn)
             rest == Lapply(Tail(pkgs), one.installed, install_fn)
         IN  [log |-> one.log \o rest.log, installed |-> rest.installed]

\* The five texts appended to the script, in order.
RScript(config) ==
    <<[text |-> "repo_info", pkgs |-> <<>>],
      [text |-> "install_fn", pkgs |-> <<>>],
      [text |-> "std_install", pkgs |-> config.cran],
      [text |-> "bioc_install", pkgs |-> config.bioc],
      [text |-> "final_update", pkgs |-> <<>>]>>

\* Rscript runs the texts of the file one after the other.
RECURSIVE RunRScript(_, _)
RunRScript(script, installed) ==
    IF script = <<>> THEN [log |-> <<>>, installed |-> installed]
    ELSE LET t == Head(script)
             one ==
               CASE t.text = "repo_info" ->
                      [log |-> <<Ev("R options(repos)", "cranrepo"),
                                 Ev("R source", "biocrepo")>>,
                       installed |-> installed]
                 [] t.text = "install_fn" ->
                      [log |-> <<>>, installed |-> installed]
                 [] t.text = "std_install" ->
                      Lapply(t.pkgs, installed, "R install.packages")
                 [] t.text = "bioc_install" ->
                      Lapply(t.pkgs, installed, "R biocLite")
                 [] OTHER ->
                      [log |-> <<Ev("R update.packages", "biocinstallRepos"),
                                 Ev("R update.packages", "all")>>,
                       installed |-> installed]
             rest == RunRScript(Tail(script), one.installed)
         IN  [log |-> one.log \o rest.log, installed |-> rest.installed]

\* _r_library_installer(config) on a host: the log, the packages R then has,
\* the files then there
RLibraryInstaller(config, installed, fs) ==
    LET script == RScript(config)
        ran == RunRScript(script, installed)
    IN  [log |-> <<Ev("exists", OutFile)>>
                 \o (IF OutFile \in fs THEN <<Ev("run rm -f", OutFile)>> ELSE <<>>)
                 \o <<Ev("run touch", OutFile)>>
                 \o [i \in 1..Len(script) |-> Ev("append", script[i].text)]
                 \o <<Ev("sudo Rscript", OutFile)>>
                 \o ran.log
                 \o <<Ev("run rm -f", OutFile)>>,
         installed |-> ran.installed,
         files |-> fs \ {OutFile}]

(* the other installers: the log of one call                                *)

\* PythonLibraryInstaller going through config['pypi'] itself
PythonLibraryInstaller_nohook(config, mode) ==
    <<Ev("sudo easy_install -U", "pip")>>
        \o Each(config.pypi, "sudo pip install --upgrade")

PythonLibraryInstaller(config, mode) ==
    <<Ev("sudo easy_install -U", "pip")>>
        \o HookThenEach(mode, "python", config.pypi, "sudo pip install --upgrade")

PerlLibraryInstaller(config, mode) ==
    <<Ev("run wget -O", "cpanm"), Ev("run chmod a+rwx", "cpanm"), Ev("sudo mv", "cpanm")>>
        \o HookThenEach(mode, "perl", config.cpan, "run cpanm --skip-installed --notest")

ClojureLibraryInstaller(config) == Each(config.cljr, "run cljr install")

HaskellLibraryInstaller(config) ==
    <<Ev("run cabal update", "")>> \o Each(config.cabal, "run cabal install --global")

\* the loop of _ruby_library_installer with the list of gems read once and
\* never again: a gem the list misses is installed
RECURSIVE RubyLoop_stale(_, _, _)
RubyLoop_stale(items, installed, onhost) ==
    IF items = <<>> THEN [log |-> <<>>, gems |-> onhost]
    ELSE LET gem == Head(items)
             cmd == IF gem \in installed THEN "sudo gem update" ELSE "sudo gem install"
             rest == RubyLoop_stale(Tail(items), installed, onhost \cup {gem})
         IN  [log |-> <<Ev(cmd, gem)>> \o rest.log, gems |-> rest.gems]

\* the loop of _ruby_library_installer over the rewritten list, with the list
\* of gems last read (installed) and the gems of the host
RECURSIVE RubyLoop(_, _, _)
RubyLoop(items, installed, onhost) ==
    IF items = <<>> THEN [log |-> <<>>, gems |-> onhost]
    ELSE LET gem == Head(items)
             miss == gem \notin installed
             cur == IF miss THEN onhost ELSE installed
             cmd == IF gem \in cur THEN "sudo gem update" ELSE "sudo gem install"
             rest == RubyLoop(Tail(items), cur, onhost \cup {gem})
         IN  [log |-> (IF miss THEN <<Ev("run gem list --no-versions", "")>> ELSE <<>>)
                        \o <<Ev(cmd, gem)>> \o rest.log,
              gems |-> rest.gems]

RubyLibraryInstaller(config, mode, onhost) ==
    LET loop == RubyLoop(Rewrite(mode, config.gems), onhost, onhost)
    IN  [log |-> <<Ev("run gem list --no-versions", ""),
                   EvL("rewrite_config_items", "ruby", config.gems)>> \o loop.log,
         gems |-> loop.gems]

(* lib_installers and _do_library_installs                                  *)

Languages == {"r", "python", "ruby", "perl", "clojure", "haskell"}

\* "%s-libs" % language, told apart by the language
LibConfigs(language) ==
    CASE language = "r" -> {[cran |-> c, bioc |-> b] : c \in PkgLists, b \in PkgLists}
      [] language = "python" -> {[pypi |-> l] : l \in PkgLists}
      [] language = "ruby" -> {[gems |-> l] : l \in PkgLists}
      [] language = "perl" -> {[cpan |-> l] : l \in PkgLists}
      [] language = "clojure" -> {[cljr |-> l] : l \in PkgLists}
      [] OTHER -> {[cabal |-> l] : l \in PkgLists}

\* lib_installers[iname](config) on a host: the log and the host afterwards
LibInstaller(language, config, mode, host) ==
    CASE language = "r" ->
           LET r == RLibraryInstaller(config, host.r_installed, host.files)
           IN  [log |-> r.log,
                host |-> [r_installed |-> r.installed, files |-> r.files, gems |-> host.gems]]
      [] language = "python" ->
           [log |-> PythonLibraryInstaller(config, mode), host |-> host]
      [] language = "ruby" ->
           LET r == RubyLibraryInstaller(config, mode, host.gems)
           IN  [log |-> r.log,
                host |-> [r_installed |-> host.r_installed, files |-> host.files, gems |-> r.gems]]
      [] language = "perl" ->
           [log |-> PerlLibraryInstaller(config, mode), host |-> host]
      [] language = "clojure" ->
           [log |-> ClojureLibraryInstaller(config), host |-> host]
      [] OTHER ->
           [log |-> HaskellLibraryInstaller(config), host |-> host]

\* One pass of the loop of _do_library_installs: the yaml file is read, the
\* installer of the registry is called with it.
DoLibraryInstall(language, config, mode, host) ==
    LET r == LibInstaller(language, config, mode, host)
    IN  [log |-> <<Ev("load_config", language), Ev("lib_installer", language)>> \o r.log,
         host |-> r.host]

Host == [r_installed |-> r_installed, files |-> files, gems |-> gems]

HostIdle == hook = "keep" /\ r_installed = {} /\ files = {} /\ gems = {}

HostInit ==
    /\ hook \in HookModes
    /\ r_installed \in SUBSET {"p1", "p2"}
    /\ files \in {{}, {OutFile}}
    /\ gems \in SUBSET {"p1", "p2"}

LibIdle ==
    /\ lib_language = "none" /\ lib_config = <<>> /\ lib_pc = "idle" /\ log = <<>>

LibInit ==
    /\ lib_language \in Languages
    /\ lib_config \in LibConfigs(lib_language)
    /\ lib_pc = "start"
    /\ log = <<>>
    \* what an installer never reads is left at one value
    /\ (lib_language # "r" => r_installed = {} /\ files = {})
    /\ (lib_language # "ruby" => gems = {})
    /\ (lib_language \in {"r", "clojure", "haskell"} => hook = "keep")

\* fab install_libraries:language
install_libraries ==
    /\ lib_pc = "start"
    /\ LET r == DoLibraryInstall(lib_language, lib_config, hook, Host)
       IN  /\ log' = log \o r.log
           /\ r_installed' = r.host.r_installed
           /\ files' = r.host.files
           /\ gems' = r.host.gems
    /\ lib_pc' = "done"
    /\ UNCHANGED <<hook, lib_language, lib_config>>
    /\ UNCHANGED <<cmVars, jsVars, cfgVars, icVars, piVars, bcVars>>

LibNext == install_libraries

(* ---- C7, C8 ---- *)

\* the entries of a log that act on one package, in order
PkgOps ==
    {"R update.packages", "R install.packages", "R biocLite",
     "sudo pip install --upgrade", "sudo gem update", "sudo gem install",
     "run cpanm --skip-installed --notest", "run cljr install",
     "run cabal install --global"}
IsPkgEvent(e) == e.op \in PkgOps /\ e.arg \in PkgNames
IsHookEvent(e) == e.op = "rewrite_config_items"
PkgEvents(l) == SelectSeq(l, IsPkgEvent)
Args(l) == [i \in 1..Len(l) |-> l[i].arg]
Indices(l, Test(_)) == {i \in 1..Len(l) : Test(l[i])}

\* the calls R made, in order
IsRCall(e) ==
    e.op \in {"R options(repos)", "R source", "R update.packages",
              "R install.packages", "R biocLite"}

\* What one run of the R installer on a host with the packages `before`
\* logged: mirror, bootstrap, the CRAN packages, the Bioconductor packages,
\* the two final updates; a package is updated if it was installed when its
\* turn came and installed otherwise; one Rscript run, the script deleted after.
RRunAsClaimed(config, before, l, fs) ==
    LET calls == SelectSeq(l, IsRCall)
        pkgs == config.cran \o config.bioc
        n == Len(pkgs)
        InstalledAt(i) == before \cup {pkgs[j] : j \in 1..(i - 1)}
        runs == Indices(l, LAMBDA e : e.op = "sudo Rscript")
        appends == SelectSeq(l, LAMBDA e : e.op = "append")
    IN  /\ Len(calls) = n + 4
        /\ calls[1] = Ev("R options(repos)", "cranrepo")
        /\ calls[2] = Ev("R source", "biocrepo")
        /\ \A i \in 1..n :
              calls[2 + i] =
                  IF pkgs[i] \in InstalledAt(i) THEN Ev("R update.packages", pkgs[i])
                  ELSE IF i <= Len(config.cran) THEN Ev("R install.packages", pkgs[i])
                  ELSE Ev("R biocLite", pkgs[i])
        /\ calls[n + 3] = Ev("R update.packages", "biocinstallRepos")
        /\ calls[n + 4] = Ev("R update.packages", "all")
        /\ Cardinality(runs) = 1
        /\ \A r \in runs :
              /\ \A i \in Indices(l, IsRCall) : i > r
              /\ \A i \in Indices(l, LAMBDA e : e.op = "append") : i < r
        /\ Args(appends) = <<"repo_info", "install_fn", "std_install",
                             "bioc_install", "final_update">>
        /\ l[Len(l)] = Ev("run rm -f", OutFile)
        /\ OutFile \notin fs

\* C7: the R installer updates each configured CRAN or Bioconductor package
\* that is installed when its turn comes and installs each that is not, never
\* the reverse (CRAN [p1, p2] on a host with {p1}: update p1, install p2), in
\* the order mirror, bootstrap, CRAN, Bioconductor, final updates; the script
\* is run exactly once and then deleted.
C7_RUpdateOrInstall ==
    [][(lib_language = "r" /\ lib_pc = "start" /\ lib_pc' = "done") =>
          /\ RRunAsClaimed(lib_config, r_installed, log', files')
          /\ (lib_config.cran = <<"p1", "p2">> /\ r_installed = {"p1"}) =>
                SubSeq(SelectSeq(log', IsRCall), 3, 4)
                    = <<Ev("R update.packages", "p1"), Ev("R install.packages", "p2")>>]_vars

\* The installer ran for CRAN [p1, p2]: p1 was updated, then p2 installed.
C7_Witness ==
    /\ lib_pc = "done" /\ lib_language = "r"
    /\ lib_config.cran = <<"p1", "p2">>
    /\ SubSeq(SelectSeq(log, IsRCall), 3, 4)
          = <<Ev("R update.packages", "p1"), Ev("R install.packages", "p2")>>
    /\ OutFile \notin files

\* the list of the language's yaml file that the installer goes through
ConfiguredList ==
    CASE lib_language = "r" -> lib_config.cran \o lib_config.bioc
      [] lib_language = "python" -> lib_config.pypi
      [] lib_language = "ruby" -> lib_config.gems
      [] lib_language = "perl" -> lib_config.cpan
      [] lib_language = "clojure" -> lib_config.cljr
      [] OTHER -> lib_config.cabal

\* the hook is called once, after the config is loaded and before the first
\* package, and the packages processed are the list it returned
HookCalledOnce ==
    LET hooks == Indices(log, IsHookEvent)
    IN  /\ Cardinality(hooks) = 1
        /\ \A h \in hooks :
              /\ \A i \in Indices(log, LAMBDA e : e.op = "load_config") : i < h
              /\ \A i \in Indices(log, IsPkgEvent) : h < i
              /\ log[h].items = ConfiguredList
              /\ Args(PkgEvents(log)) = Rewrite(hook, log[h].items)

\* C8 as stated: every installer of the registry calls the hook exactly once,
\* after config load and before the first package, and goes through its result.
C8_EveryInstallerCallsHook == lib_pc = "done" => HookCalledOnce

\* C8, amended: the python-libs, ruby-libs and perl-libs installers call the
\* hook exactly once per invocation, after the config is loaded and before
\* the first package is processed, and go through the list it returned; the
\* r-libs, clojure-libs and haskell-libs installers never call the hook and
\* go through the configured list as loaded.
C8_HookInPythonRubyPerl ==
    lib_pc = "done" =>
        IF lib_language \in {"python", "ruby", "perl"}
        THEN HookCalledOnce
        ELSE /\ Indices(log, IsHookEvent) = {}
             /\ Args(PkgEvents(log)) = ConfiguredList

\* The python installer ran with a flavor that reorders [p1, p2].
C8_Witness ==
    /\ lib_pc = "done" /\ lib_language = "python" /\ hook = "reorder"
    /\ lib_config.pypi = <<"p1", "p2">>
    /\ Args(PkgEvents(log)) = <<"p2", "p1">>
    /\ Cardinality(Indices(log, IsHookEvent)) = 1

----------------------------------------------------------------------------
(* fabfile.py: _perform_install and its phases                              *)

Phases == <<"packages", "custom", "chef_recipes", "libraries", "post_install", "cleanup">>

\* a key of main.yaml: absent, null (None) or a list
AbsentKey == [st |-> "absent", val |-> <<>>]
NullKey == [st |-> "null", val |-> <<>>]
ListKey(l) == [st |-> "list", val |-> l]

\* the value of custom_ignore: None or a list
NoIgnore == [null |-> TRUE, list |-> <<>>]
Ignore(l) == [null |-> FALSE, list |-> l]

\* packages = [p for p in packages if ignore is None or p not in ignore],
\* with the test dropped
FilterIgnored_none(packages, ignore) == packages

\* packages = [p for p in packages if ignore is None or p not in ignore]
FilterIgnored(packages, ignore) ==
    LET Keep(q) == ignore.null \/ \A i \in 1..Len(ignore.list) : ignore.list[i] # q
    IN  SelectSeq(packages, Keep)

\* if target is None or target == "packages":
PackagesPhase(to_install, e) ==
    <<Ev("_configure_and_install_native_packages", "")>>
        \o (IF e.nixpkgs THEN <<Ev("_setup_nix_sources", ""), Ev("_nix_packages", "")>>
            ELSE <<>>)
        \o <<Ev("_update_biolinux_log", "")>>

\* for p in ...: install_custom(p, True, pkg_to_group), up to the first that raises
RECURSIVE CustomLoop(_, _, _)
CustomLoop(items, pkg_to_group, modules) ==
    IF items = <<>> THEN [log |-> <<>>, raised |-> "none"]
    ELSE LET r == InstallCustom(Head(items), pkg_to_group, modules)
             here == <<Ev("install_custom", Head(items))>>
                        \o [i \in 1..Len(r.calls) |-> Ev("call install_", r.calls[i].fn)]
         IN  IF r.raised # "none" THEN [log |-> here, raised |-> r.raised]
             ELSE LET rest == CustomLoop(Tail(items), pkg_to_group, modules)
                  IN  [log |-> here \o rest.log, raised |-> rest.raised]

LocalInstall == "local_install"

\* _custom_installs(to_install, ignore)
CustomInstalls(to_install, ignore, yaml, modules, mode, fs) ==
    LET cfg == YamlToPackages(yaml, Groups(to_install))
        packages == FilterIgnored(cfg.packages, ignore)
        loop == CustomLoop(Rewrite(mode, packages), cfg.pkg_to_group, modules)
    IN  [log |-> <<Ev("exists", LocalInstall)>>
                 \o (IF LocalInstall \in fs THEN <<>>
                     ELSE <<Ev("run mkdir -p", LocalInstall)>>)
                 \o <<Ev("load_config", "custom.yaml"),
                      EvL("rewrite_config_items", "custom", packages)>>
                 \o loop.log,
         raised |-> loop.raised,
         files |-> fs \cup {LocalInstall},
         packages |-> packages,
         pkg_to_group |-> cfg.pkg_to_group]

\* install_chef_recipe(recipes, True): an ImportError of the provision
\* library is logged and the function returns
InstallChefRecipe(recipes, e) ==
    <<Ev("import provision", "")>>
        \o (IF ~e.provision
            THEN <<Ev("logger.error", "Failed to import fabric-provision library")>>
            ELSE <<Ev("_configure_chef", "")>>
                    \o Each(recipes, "chef.add_recipe")
                    \o <<Ev("provision", "")>>)

\* _provision_chef_recipes(to_install, ignore)
ProvisionChefRecipes(to_install, ignore, yaml, mode, e) ==
    LET cfg == YamlToPackages(yaml, Groups(to_install))
        packages == FilterIgnored(cfg.packages, ignore)
        recipes == Rewrite(mode, packages)
    IN  [log |-> <<Ev("load_config", "chef_recipes.yaml"),
                   EvL("rewrite_config_items", "chef_recipes", packages)>>
                 \o (IF recipes # <<>> THEN InstallChefRecipe(recipes, e) ELSE <<>>),
         packages |-> packages]

\* the yaml file of each library group, as the deployment ships it
LibConfigOf(language) ==
    CASE language = "r" -> [cran |-> <<"p1", "p2">>, bioc |-> <<"p2">>]
      [] language = "python" -> [pypi |-> <<"p1", "p2">>]
      [] language = "ruby" -> [gems |-> <<"p1", "p2">>]
      [] language = "perl" -> [cpan |-> <<"p1">>]
      [] language = "clojure" -> [cljr |-> <<"p1">>]
      [] OTHER -> [cabal |-> <<"p1">>]

\* _do_library_installs(to_install)
RECURSIVE DoLibraryInstalls(_, _, _)
DoLibraryInstalls(to_install, mode, host) ==
    IF to_install = <<>> THEN [log |-> <<>>, host |-> host]
    ELSE LET one == DoLibraryInstall(Head(to_install), LibConfigOf(Head(to_install)), mode, host)
             rest == DoLibraryInstalls(Tail(to_install), mode, one.host)
         IN  [log |-> one.log \o rest.log, host |-> rest.host]

\* if target is None or target == "post_install":
PostInstallPhase ==
    <<Ev("env.edition.post_install", ""), Ev("env.flavor.post_install", "")>>

\* if target is None or target == "cleanup":
CleanupPhase(e) ==
    <<Ev("_cleanup_space", "")>>
        \o (IF e.is_ec2_image
            THEN (IF e.distribution = "ubuntu"
                  THEN <<Ev("sudo wget", "cloud-init.deb"), Ev("sudo dpkg -i", "cloud-init.deb"),
                         Ev("sudo rm -f", "cloud-init.deb")>>
                  ELSE <<>>)
                 \o <<Ev("_cleanup_ec2", "")>>
            ELSE <<>>)

\* sorted(libraries): the names of the registry in the order of their text
\* ("clojure-libs" < "haskell-libs" < "perl-libs" < "python-libs" < "r-libs"
\* < "ruby-libs")
LibRank(name) ==
    CASE name = "clojure" -> 1 [] name = "haskell" -> 2 [] name = "perl" -> 3
      [] name = "python" -> 4 [] name = "r" -> 5 [] OTHER -> 6

RECURSIVE InsertSorted(_, _)
InsertSorted(x, s) ==
    IF s = <<>> THEN <<x>>
    ELSE IF LibRank(x) < LibRank(Head(s)) THEN <<x>> \o s
    ELSE <<Head(s)>> \o InsertSorted(x, Tail(s))

RECURSIVE Sorted(_)
Sorted(s) == IF s = <<>> THEN <<>> ELSE InsertSorted(Head(s), Sorted(Tail(s)))

\* _read_main_config() with custom_ignore indexed as the other two keys are:
\* full_data['custom_ignore']
ReadMainConfig_indexed(yaml) ==
    IF \/ yaml.packages.st = "absent" \/ yaml.libraries.st = "absent"
       \/ yaml.custom_ignore.st = "absent"
    THEN [raised |-> "KeyError", packages |-> <<>>, libraries |-> <<>>,
          custom_ignore |-> Ignore(<<>>)]
    ELSE [raised |-> "none",
          packages |-> IF yaml.packages.st = "null" THEN <<>> ELSE yaml.packages.val,
          libraries |-> IF yaml.libraries.st = "null" THEN <<>>
                        ELSE Sorted(yaml.libraries.val),
          custom_ignore |-> IF yaml.custom_ignore.st = "null" THEN NoIgnore
                            ELSE Ignore(yaml.custom_ignore.val)]

\* _read_main_config(): full_data['packages'] and full_data['libraries'] are
\* indexed, custom_ignore is read with get(.., []); an empty or null list of
\* packages or libraries becomes []
ReadMainConfig(yaml) ==
    IF yaml.packages.st = "absent" \/ yaml.libraries.st = "absent"
    THEN [raised |-> "KeyError", packages |-> <<>>, libraries |-> <<>>,
          custom_ignore |-> Ignore(<<>>)]
    ELSE [raised |-> "none",
          packages |-> IF yaml.packages.st = "null" THEN <<>> ELSE yaml.packages.val,
          libraries |-> IF yaml.libraries.st = "null" THEN <<>>
                        ELSE Sorted(yaml.libraries.val),
          custom_ignore |-> IF yaml.custom_ignore.st = "absent" THEN Ignore(<<>>)
                            ELSE IF yaml.custom_ignore.st = "null" THEN NoIgnore
                            ELSE Ignore(yaml.custom_ignore.val)]

\* the phase after a phase, "done" after the last: the order of the if
\* statements of _perform_install, with chef_recipes and libraries exchanged
NextPc_swapped(phase) ==
    CASE phase = "packages" -> "custom"
      [] phase = "custom" -> "libraries"
      [] phase = "libraries" -> "chef_recipes"
      [] phase = "chef_recipes" -> "post_install"
      [] phase = "post_install" -> "cleanup"
      [] OTHER -> "done"

\* the phase after a phase, "done" after the last: the order of the if
\* statements of _perform_install
NextPc(phase) ==
    CASE phase = "packages" -> "custom"
      [] phase = "custom" -> "chef_recipes"
      [] phase = "chef_recipes" -> "libraries"
      [] phase = "libraries" -> "post_install"
      [] phase = "post_install" -> "cleanup"
      [] OTHER -> "done"

\* if target is None or target == phase, with the target never looked at
Selected_always(t, phase) == TRUE

\* if target is None or target == phase
Selected(t, phase) == t = None \/ t = phase

\* A step that names no remote command or outside call cannot fail on its
\* own: the import of the provision library is decided by env.provision, and
\* the logging of its failure follows it.
Failable(e) == e.op \notin {"import provision", "logger.error", "install_custom"}

\* The ways a phase with these steps can go: all of them run, ending in the
\* exception `det` the steps themselves raise ("none": the phase returns), or
\* one of the steps fails and its exception ends the phase there.
Outcomes(name, events, det) ==
    {[log |-> <<Ev("phase", name)>> \o events
                \o (IF det = "none" THEN <<Ev("phase_end", name)>> ELSE <<>>),
      raised |-> det, complete |-> TRUE]}
    \cup
    {[log |-> <<Ev("phase", name)>> \o SubSeq(events, 1, k),
      raised |-> "Failure", complete |-> FALSE] :
        k \in {i \in 1..Len(events) : Failable(events[i])}}

\* the files read, the code found, the flavor and the host of a run
MainYamls ==
    {[packages |-> pk, libraries |-> lb, custom_ignore |-> ig] :
        pk \in {AbsentKey, NullKey, ListKey(<<>>), ListKey(<<n_g>>), ListKey(<<n_h, n_g>>)},
        lb \in {AbsentKey, NullKey, ListKey(<<"ruby", "python">>), ListKey(<<"r">>)},
        ig \in {AbsentKey, NullKey, ListKey(<<>>), ListKey(<<n_a>>), ListKey(<<n_b, n_ab>>)}}

ChefYamls == {<<>>, <<[group |-> n_g, members |-> <<n_a, n_b>>]>>}

InstallYamls ==
    {<<[group |-> n_g, members |-> m1], [group |-> n_h, members |-> m2]>> :
        m1 \in {<<n_a>>, <<n_ab, n_a>>}, m2 \in {<<>>, <<n_a_b, n_b>>}}

InstallModules ==
    {{[name |-> n_g, fns |-> {n_a, n_a_b}], [name |-> n_h, fns |-> {n_b, n_a_b}]},
     {[name |-> n_g, fns |-> {n_a}], [name |-> n_h, fns |-> {n_b}]}}

Envs ==
    {[nixpkgs |-> FALSE, is_ec2_image |-> FALSE, distribution |-> "ubuntu", provision |-> TRUE],
     [nixpkgs |-> TRUE, is_ec2_image |-> TRUE, distribution |-> "ubuntu", provision |-> TRUE],
     [nixpkgs |-> FALSE, is_ec2_image |-> TRUE, distribution |-> "debian", provision |-> FALSE],
     [nixpkgs |-> TRUE, is_ec2_image |-> FALSE, distribution |-> "debian", provision |-> FALSE]}

PlainEnv ==
    [nixpkgs |-> FALSE, is_ec2_image |-> FALSE, distribution |-> "ubuntu", provision |-> TRUE]

PiIdle ==
    /\ target = None /\ main_yaml = <<>> /\ chef_yaml = <<>> /\ env = PlainEnv
    /\ pc = "idle" /\ raised = "none"
    /\ pkg_install = <<>> /\ lib_install = <<>> /\ custom_ignore = Ignore(<<>>)
    /\ ci_packages = <<>> /\ ci_pkg_to_group = EmptyMap /\ chef_packages = <<>>

PiInit ==
    /\ target \in {None} \cup {Phases[i] : i \in 1..Len(Phases)}
    /\ main_yaml \in MainYamls
    /\ custom_yaml \in InstallYamls
    /\ chef_yaml \in ChefYamls
    /\ custom_modules \in InstallModules
    /\ env \in Envs
    /\ hook \in {"keep", "reorder"}
    /\ r_installed = {"p1"} /\ files = {} /\ gems = {"p1"}
    /\ pc = "start" /\ raised = "none" /\ log = <<>>
    /\ pkg_install = <<>> /\ lib_install = <<>> /\ custom_ignore = Ignore(<<>>)
    /\ ci_packages = <<>> /\ ci_pkg_to_group = EmptyMap /\ chef_packages = <<>>
    /\ lib_language = "none" /\ lib_config = <<>> /\ lib_pc = "idle"
    \* what the selected phases never read is left at one value
    /\ (target \notin {None, "custom"} =>
            /\ custom_modules = CHOOSE m \in InstallModules : TRUE
            /\ custom_yaml = CHOOSE y \in InstallYamls : TRUE)
    /\ (target \in {"packages", "post_install", "cleanup"} => hook = "keep")
    /\ (target \notin {None, "chef_recipes"} => chef_yaml = <<>>)
    /\ (target \in {"custom", "libraries", "post_install"} => env = PlainEnv)

\* pkg_install, lib_install, custom_ignore = _read_main_config()
read_main_config ==
    /\ pc = "start"
    /\ LET c == ReadMainConfig(main_yaml)
       IN  /\ pkg_install' = c.packages
           /\ lib_install' = c.libraries
           /\ custom_ignore' = c.custom_ignore
           /\ raised' = c.raised
           /\ pc' = IF c.raised = "none" THEN "packages" ELSE "failed"
    /\ log' = Append(log, Ev("load_config", "main.yaml"))
    /\ UNCHANGED <<target, main_yaml, chef_yaml, env, ci_packages, ci_pkg_to_group,
                   chef_packages>>
    /\ UNCHANGED <<cmVars, jsVars, cfgVars, icVars, hostVars, bcVars>>
    /\ UNCHANGED <<lib_language, lib_config, lib_pc>>

\* where _perform_install goes after a phase, with an exception of the
\* phase caught and the next statement run
AfterPhase_continue(exc, name) == NextPc(name)

\* where _perform_install goes after a phase: no statement of it is in a
\* try block, an exception of a phase leaves the function
AfterPhase(exc, name) == IF exc = "none" THEN NextPc(name) ELSE "failed"

\* the phase went as o: its log is added; an exception ends the run
Finish(o, name) ==
    /\ log' = log \o o.log
    /\ raised' = o.raised
    /\ pc' = AfterPhase(o.raised, name)

\* the if statement of the phase is false
Skip(name) ==
    /\ pc' = NextPc(name)
    /\ UNCHANGED <<log, raised>>

Reached(l, op) == \E i \in 1..Len(l) : l[i].op = op

PiFixed ==
    /\ UNCHANGED <<target, main_yaml, chef_yaml, env, pkg_install, lib_install, custom_ignore>>
    /\ UNCHANGED <<cmVars, jsVars, cfgVars, icVars, hook, bcVars>>
    /\ UNCHANGED <<lib_language, lib_config, lib_pc>>

packages_phase ==
    /\ pc = "packages"
    /\ IF Selected(target, "packages")
       THEN \E o \in Outcomes("packages", PackagesPhase(pkg_install, env), "none") :
                Finish(o, "packages")
       ELSE Skip("packages")
    /\ UNCHANGED <<ci_packages, ci_pkg_to_group, chef_packages, r_installed, files, gems>>
    /\ PiFixed

custom_phase ==
    /\ pc = "custom"
    /\ IF Selected(target, "custom")
       THEN LET r == CustomInstalls(pkg_install, custom_ignore, custom_yaml,
                                    custom_modules, hook, files)
            IN  \E o \in Outcomes("custom", r.log, r.raised) :
                    /\ Finish(o, "custom")
                    /\ files' = IF Reached(o.log, "load_config") THEN r.files ELSE files
                    /\ IF Reached(o.log, "rewrite_config_items")
                       THEN ci_packages' = r.packages /\ ci_pkg_to_group' = r.pkg_to_group
                       ELSE UNCHANGED <<ci_packages, ci_pkg_to_group>>
       ELSE Skip("custom") /\ UNCHANGED <<files, ci_packages, ci_pkg_to_group>>
    /\ UNCHANGED <<chef_packages, r_installed, gems>>
    /\ PiFixed

chef_recipes_phase ==
    /\ pc = "chef_recipes"
    /\ IF Selected(target, "chef_recipes")
       THEN LET r == ProvisionChefRecipes(pkg_install, custom_ignore, chef_yaml, hook, env)
            IN  \E o \in Outcomes("chef_recipes", r.log, "none") :
                    /\ Finish(o, "chef_recipes")
                    /\ chef_packages' = IF Reached(o.log, "rewrite_config_items")
                                        THEN r.packages ELSE chef_packages
       ELSE Skip("chef_recipes") /\ UNCHANGED chef_packages
    /\ UNCHANGED <<ci_packages, ci_pkg_to_group, r_installed, files, gems>>
    /\ PiFixed

\* A run that a failing step ended has no later step that reads the host: the
\* host is followed for the phases that return only.
libraries_phase ==
    /\ pc = "libraries"
    /\ IF Selected(target, "libraries")
       THEN LET r == DoLibraryInstalls(lib_install, hook, Host)
            IN  \E o \in Outcomes("libraries", r.log, "none") :
                    /\ Finish(o, "libraries")
                    /\ r_installed' = IF o.complete THEN r.host.r_installed ELSE r_installed
                    /\ files' = IF o.complete THEN r.host.files ELSE files
                    /\ gems' = IF o.complete THEN r.host.gems ELSE gems
       ELSE Skip("libraries") /\ UNCHANGED <<r_installed, files, gems>>
    /\ UNCHANGED <<ci_packages, ci_pkg_to_group, chef_packages>>
    /\ PiFixed

post_install_phase ==
    /\ pc = "post_install"
    /\ IF Selected(target, "post_install")
       THEN \E o \in Outcomes("post_install", PostInstallPhase, "none") :
                Finish(o, "post_install")
       ELSE Skip("post_install")
    /\ UNCHANGED <<ci_packages, ci_pkg_to_group, chef_packages, r_installed, files, gems>>
    /\ PiFixed

cleanup_phase ==
    /\ pc = "cleanup"
    /\ IF Selected(target, "cleanup")
       THEN \E o \in Outcomes("cleanup", CleanupPhase(env), "none") :
                Finish(o, "cleanup")
       ELSE Skip("cleanup")
    /\ UNCHANGED <<ci_packages, ci_pkg_to_group, chef_packages, r_installed, files, gems>>
    /\ PiFixed

PiNext ==
    \/ read_main_config
    \/ packages_phase
    \/ custom_phase
    \/ chef_recipes_phase
    \/ libraries_phase
    \/ post_install_phase
    \/ cleanup_phase

----------------------------------------------------------------------------
(* Properties of _perform_install                                           *)

IsPhaseMark(e) == e.op \in {"phase", "phase_end"}
PhaseMarks(l) == SelectSeq(l, IsPhaseMark)

\* start and end of every phase, in the order of Phases
ExpectedMarks ==
    [i \in 1..(2 * Len(Phases)) |->
        Ev(IF i % 2 = 1 THEN "phase" ELSE "phase_end", Phases[(i + 1) \div 2])]

IsPrefix(a, b) == Len(a) <= Len(b) /\ a = SubSeq(b, 1, Len(a))

PhaseIndex(name) == CHOOSE i \in 1..Len(Phases) : Phases[i] = name

PhaseNames == {Phases[i] : i \in 1..Len(Phases)}

\* C1: in a run with target = None the phases start and end in the order
\* packages, custom, chef_recipes, libraries, post_install, cleanup, each
\* starting only after the one before it has ended; a run that does not fail
\* has run each of the six exactly once.
C1_FixedOrder ==
    target = None =>
        /\ IsPrefix(PhaseMarks(log), ExpectedMarks)
        /\ (pc \in PhaseNames => Len(PhaseMarks(log)) = 2 * (PhaseIndex(pc) - 1))
        /\ (pc = "done" => PhaseMarks(log) = ExpectedMarks)

C1_Witness ==
    /\ target = None /\ pc = "done" /\ raised = "none"
    /\ Len(lib_install) = 2
    /\ Reached(log, "install_custom")
    /\ Reached(log, "provision")
    /\ Reached(log, "_cleanup_ec2")

IsInstallerCall(e) == e.op = "lib_installer"
InstallerCalls(l) == Args(SelectSeq(l, IsInstallerCall))

\* the steps of the library phase: what the log holds after its start, the
\* end of the phase left out
LibraryStart(l) == CHOOSE i \in 1..Len(l) : l[i].op = "phase" /\ l[i].arg = "libraries"
LibraryEnd(l) == CHOOSE i \in 1..Len(l) : l[i].op = "phase_end" /\ l[i].arg = "libraries"
LibraryPart(l) == SubSeq(l, LibraryStart(l) + 1, LibraryEnd(l) - 1)

ConfiguredLibraries ==
    IF main_yaml.libraries.st = "list" THEN main_yaml.libraries.val ELSE <<>>

LibrariesDone == \E i \in 1..Len(log) : log[i].op = "phase_end" /\ log[i].arg = "libraries"

\* C2: with a target of the enumeration only the named phase runs; with
\* target = "libraries" and with target = None alike the library installers
\* are invoked for the libraries of main.yaml in the order of their names,
\* and the library phase takes the steps _do_library_installs takes on them.
C2_OnlyNamedPhase ==
    /\ (target \in PhaseNames =>
            /\ \A i \in 1..Len(log) : IsPhaseMark(log[i]) => log[i].arg = target
            /\ (pc = "done" =>
                    PhaseMarks(log) = <<Ev("phase", target), Ev("phase_end", target)>>))
    /\ (target \in {None, "libraries"} /\ LibrariesDone =>
            LET calls == InstallerCalls(log)
            IN  /\ Len(calls) = Len(ConfiguredLibraries)
                /\ {calls[i] : i \in 1..Len(calls)}
                     = {ConfiguredLibraries[i] : i \in 1..Len(ConfiguredLibraries)}
                /\ \A i \in 1..(Len(calls) - 1) : LibRank(calls[i]) < LibRank(calls[i + 1])
                /\ LibraryPart(log)
                     = DoLibraryInstalls(calls, hook,
                                         [r_installed |-> {"p1"}, files |-> {},
                                          gems |-> {"p1"}]).log)

C2_Witness ==
    /\ target = "libraries" /\ pc = "done"
    /\ ConfiguredLibraries = <<"ruby", "python">>
    /\ InstallerCalls(log) = <<"python", "ruby">>
    /\ ~Reached(log, "_cleanup_space")

\* a sub-step failed: an exception left a phase, or the import of the
\* provision library failed
StepFailed == raised # "none" \/ Reached(log, "logger.error")

\* C3 as stated: whenever a sub-step fails, the import of the provision
\* library included, the run ends there with the failure raised.
C3_SwallowsNoFailure == StepFailed => pc = "failed" /\ raised # "none"

\* C3: an exception of any sub-step ends the run at that step, inside its
\* phase, and leaves _perform_install; a failed import of the provision
\* library is logged, ends the chef phase without any of its later steps, and
\* the run goes on.
C3_FailFastButImport ==
    /\ [](/\ raised # "none" <=> pc = "failed"
          /\ (pc = "failed" /\ PhaseMarks(log) # <<>> =>
                  PhaseMarks(log)[Len(PhaseMarks(log))].op = "phase")
          /\ (pc = "failed" /\ PhaseMarks(log) = <<>> => raised = "KeyError")
          /\ (Reached(log, "logger.error") =>
                  /\ ~env.provision
                  /\ ~Reached(log, "_configure_chef")
                  /\ ~Reached(log, "chef.add_recipe")
                  /\ ~Reached(log, "provision"))
          /\ \A i \in 1..(Len(log) - 1) :
                  log[i].op = "logger.error" =>
                      log[i + 1].op = "phase_end" /\ log[i + 1].arg = "chef_recipes")
    /\ [][raised = "none" /\ pc # "failed"]_vars

C3_Witness ==
    /\ Reached(log, "logger.error")
    /\ Reached(log, "lib_installer")
    /\ pc = "failed" /\ raised = "Failure"
    /\ log[Len(log)].op = "_cleanup_space"

InIgnore(q) ==
    ~custom_ignore.null /\ \E i \in 1..Len(custom_ignore.list) : custom_ignore.list[i] = q

NotIgnored(q) == ~InIgnore(q)

CustomActed ==
    \E i \in 1..Len(log) : log[i].op = "rewrite_config_items" /\ log[i].arg = "custom"

ChefActed ==
    \E i \in 1..Len(log) : log[i].op = "rewrite_config_items" /\ log[i].arg = "chef_recipes"

HandedTo(kind) ==
    log[CHOOSE i \in 1..Len(log) : log[i].op = "rewrite_config_items" /\ log[i].arg = kind].items

\* C5: the packages the custom phase and the chef phase act on are the
\* resolved packages that are not in custom_ignore, in their order; the
\* mapping install_custom gets still has every resolved package, the ignored
\* ones included.
C5_IgnoreFilters ==
    /\ (CustomActed =>
            LET resolved == YamlPackages(custom_yaml, Groups(pkg_install))
            IN  /\ ci_packages = SelectSeq(resolved, NotIgnored)
                /\ HandedTo("custom") = ci_packages
                /\ \A i \in 1..Len(ci_packages) : ~InIgnore(ci_packages[i])
                /\ \A i \in 1..Len(log) :
                       log[i].op = "install_custom" => ~InIgnore(log[i].arg)
                /\ \A i \in 1..Len(resolved) : resolved[i] \in DOMAIN ci_pkg_to_group)
    /\ (ChefActed =>
            LET resolved == YamlPackages(chef_yaml, Groups(pkg_install))
            IN  /\ chef_packages = SelectSeq(resolved, NotIgnored)
                /\ HandedTo("chef_recipes") = chef_packages
                /\ \A i \in 1..Len(log) :
                       log[i].op = "chef.add_recipe" => ~InIgnore(log[i].arg))

C5_Witness ==
    /\ CustomActed /\ ChefActed
    /\ ci_packages = <<n_ab>>
    /\ InIgnore(n_a) /\ n_a \in DOMAIN ci_pkg_to_group
    /\ chef_packages = <<n_b>>
    /\ Reached(log, "install_custom")

----------------------------------------------------------------------------
(* Properties of _ruby_library_installer                                    *)

GemQuery == "run gem list --no-versions"
IsGemCommand(e) == e.op \in {"sudo gem update", "sudo gem install"}
IsRubyEvent(e) == e.op = GemQuery \/ IsGemCommand(e) \/ IsHookEvent(e)

\* What one run of the Ruby installer on a host with the gems `before` logged
\* for the rewritten list `todo`: one query, the hook, then for every gem of
\* the list, in order, one command, with a query in front of it exactly when
\* the gem is not among those the query before reported; the command is an
\* update when the latest query reported the gem and an install otherwise.
RubyRunAsClaimed(todo, before, l) ==
    LET ev == SelectSeq(l, IsRubyEvent)
        cmds == {i \in 1..Len(ev) : IsGemCommand(ev[i])}
        \* what a query at position j saw: the gems of the host by then
        Seen(j) == before \cup {ev[k].arg : k \in {c \in cmds : c < j}}
        \* the latest query before position i
        Latest(i) == CHOOSE j \in 1..(i - 1) :
                        /\ ev[j].op = GemQuery
                        /\ \A k \in (j + 1)..(i - 1) : ev[k].op # GemQuery
        Requeried(i) == ev[i - 1].op = GemQuery
        Cached(i) == IF Requeried(i) THEN Seen(Latest(i - 1)) ELSE Seen(Latest(i))
    IN  /\ Len(ev) >= 2
        /\ ev[1].op = GemQuery
        /\ IsHookEvent(ev[2])
        /\ Args(SelectSeq(ev, IsGemCommand)) = todo
        /\ \A j \in 3..Len(ev) : ev[j].op = GemQuery => j + 1 \in cmds
        /\ \A i \in cmds :
              /\ Requeried(i) <=> ev[i].arg \notin Cached(i)
              /\ ev[i].op = "sudo gem update" <=> ev[i].arg \in Seen(Latest(i))

\* C11: the Ruby installer reads the installed gems once before the loop and
\* again only for a gem that the list it holds misses; every gem of the
\* rewritten list gets one command, in order: gem update if the latest list
\* has it, gem install otherwise.
C11_RubyQueriesOnMiss ==
    [][(lib_language = "ruby" /\ lib_pc = "start" /\ lib_pc' = "done") =>
          /\ RubyRunAsClaimed(Rewrite(hook, lib_config.gems), gems, log')
          /\ (hook = "keep" /\ lib_config.gems = <<"p2", "p1">> /\ gems = {"p1"}) =>
                SelectSeq(log', IsRubyEvent)
                    = <<Ev(GemQuery, ""), EvL("rewrite_config_items", "ruby", <<"p2", "p1">>),
                        Ev(GemQuery, ""), Ev("sudo gem install", "p2"),
                        Ev("sudo gem update", "p1")>>]_vars

\* A run with a miss and a hit: p2 is looked up again and installed, p1 is
\* updated from the list already held; and a run in which the gem installed
\* first is found by the second look and updated.
C11_Witness ==
    /\ lib_pc = "done" /\ lib_language = "ruby" /\ hook = "keep"
    /\ \/ SelectSeq(log, IsRubyEvent)
             = <<Ev(GemQuery, ""), EvL("rewrite_config_items", "ruby", <<"p2", "p1">>),
                 Ev(GemQuery, ""), Ev("sudo gem install", "p2"),
                 Ev("sudo gem update", "p1")>>
       \/ SelectSeq(log, IsRubyEvent)
             = <<Ev(GemQuery, ""), EvL("rewrite_config_items", "ruby", <<"p2", "p2">>),
                 Ev(GemQuery, ""), Ev("sudo gem install", "p2"),
                 Ev(GemQuery, ""), Ev("sudo gem update", "p2")>>

----------------------------------------------------------------------------
(* Properties of _read_main_config                                          *)

\* a key of main.yaml with nothing in it: absent, null or an empty list
Empty(key) == key.st \in {"absent", "null"} \/ key.val = <<>>

ReadsMainConfig == pc = "start" /\ pc' # "start"

\* C12 as stated: whichever of the three keys is absent, null or empty,
\* _read_main_config returns an empty list for it and does not fail.
C12_DefaultsEveryKey ==
    [][ReadsMainConfig =>
          /\ raised' = "none" /\ pc' = "packages"
          /\ (Empty(main_yaml.packages) => pkg_install' = <<>>)
          /\ (Empty(main_yaml.libraries) => lib_install' = <<>>)
          /\ (Empty(main_yaml.custom_ignore) => custom_ignore' = Ignore(<<>>))]_vars

\* C12: _read_main_config fails with a KeyError, before any phase, exactly
\* when packages or libraries is absent; otherwise a null or empty packages
\* or libraries is returned as [], an absent custom_ignore as [], a null
\* custom_ignore as None and a list as it is; an empty packages or libraries
\* leaves the custom phase and the library phase with nothing to install.
C12_DefaultsWhatTheCodeDefaults ==
    /\ [][ReadsMainConfig =>
            LET y == main_yaml
                fails == y.packages.st = "absent" \/ y.libraries.st = "absent"
            IN  /\ fails => raised' = "KeyError" /\ pc' = "failed"
                /\ ~fails =>
                      /\ raised' = "none" /\ pc' = "packages"
                      /\ pkg_install' = (IF y.packages.st = "list" THEN y.packages.val
                                         ELSE <<>>)
                      /\ Len(lib_install') = Len(y.libraries.val)
                      /\ {lib_install'[i] : i \in 1..Len(lib_install')}
                           = {y.libraries.val[i] : i \in 1..Len(y.libraries.val)}
                      /\ custom_ignore' =
                            (CASE y.custom_ignore.st = "absent" -> Ignore(<<>>)
                               [] y.custom_ignore.st = "null" -> NoIgnore
                               [] OTHER -> Ignore(y.custom_ignore.val))]_vars
    /\ [](/\ (pc = "failed" /\ log = <<Ev("load_config", "main.yaml")>>
                  => raised = "KeyError")
          /\ (pkg_install = <<>> /\ CustomActed =>
                  ci_packages = <<>> /\ ~Reached(log, "install_custom"))
          /\ (lib_install = <<>> /\ LibrariesDone => InstallerCalls(log) = <<>>))

C12_Witness ==
    /\ target = None /\ pc = "done" /\ raised = "none"
    /\ main_yaml.packages.st = "null"
    /\ main_yaml.libraries = ListKey(<<"r">>)
    /\ main_yaml.custom_ignore.st = "absent"
    /\ pkg_install = <<>> /\ custom_ignore = Ignore(<<>>)
    /\ CustomActed /\ ci_packages = <<>>
    /\ InstallerCalls(log) = <<"r">>

----------------------------------------------------------------------------
(* cloudbio/chef_utils.py: build_chef_properties                            *)

ChefPrefix == <<"c", "h", "e", "f", "_">>
CblPrefix ==
    <<"c", "l", "o", "u", "d", "b", "i", "o", "l", "i", "n", "u", "x", "_">>

\* key.startswith(prefix)
StartsWith(key, prefix) ==
    Len(key) >= Len(prefix) /\ SubSeq(key, 1, Len(prefix)) = prefix

\* key in json_properties
HasKey(props, key) == \E m \in props : m.key = key

\* One pass of the for loop: an entry whose key json_properties has, or whose
\* value is not a str, is skipped; a key chef_X is stored as X, any other key
\* K as cloudbiolinux_K.
AddProperty(props, e) ==
    IF HasKey(props, e.key) \/ ~e.isstr THEN props
    ELSE IF StartsWith(e.key, ChefPrefix)
         THEN SetMember(props, SubSeq(e.key, Len(ChefPrefix) + 1, Len(e.key)),
                        JStr(e.value))
         ELSE SetMember(props, CblPrefix \o e.key, JStr(e.value))

\* the node_extra.json files read: each holds an object or is malformed
NodeEmpty ==
    <<"{", "}">>
NodeA ==
    <<"{", "\"", "a", "\"", ":", "\"", "x", "\"", " ", "/", "*", " ", "d",
      "i", "r", " ", "*", "/", "}">>
NodeCblB ==
    <<"{", "\"", "c", "l", "o", "u", "d", "b", "i", "o", "l", "i", "n", "u",
      "x", "_", "b", "\"", ":", "\"", "x", "\"", "}", " ", "/", "/", " ",
      "b", "\n">>
NodeChefA ==
    <<"{", "\"", "c", "h", "e", "f", "_", "a", "\"", ":", "\"", "x", "\"",
      ",", "\"", "b", "\"", ":", "\"", "y", "\"", "}">>
NodeMalformed ==
    <<"{", "\"", "a", "\"", ":", "}">>

NodeFiles == {NodeEmpty, NodeA, NodeCblB, NodeChefA, NodeMalformed}

\* the keys of env, and its values: a str or something else (a bool, a list)
EnvKeys == {<<"a">>, ChefPrefix \o <<"a">>, <<"b">>}
EnvValues ==
    {[isstr |-> TRUE, value |-> <<"v">>], [isstr |-> FALSE, value |-> <<>>]}
ChefEnvs ==
    {{[key |-> k, isstr |-> f[k].isstr, value |-> f[k].value] : k \in ks} :
        ks \in SUBSET EnvKeys, f \in [EnvKeys -> EnvValues]}

BcIdle ==
    /\ bc_env = {} /\ bc_todo = {} /\ bc_props = {}
    /\ bc_pc = "idle" /\ bc_raised = "none"

BcInit ==
    /\ js_input \in NodeFiles
    /\ js_content = js_input
    /\ js_pc = "strip"
    /\ js_result = JNotLoaded
    /\ bc_env \in ChefEnvs
    /\ bc_todo = {} /\ bc_props = {}
    /\ bc_pc = "parse" /\ bc_raised = "none"

\* json_properties = _parse_json(config_file): json.loads returned, or raised
parse_json_returns ==
    /\ bc_pc = "parse" /\ js_pc = "done"
    /\ IF js_result.type = "object"
       THEN /\ bc_props' = js_result.members
            /\ bc_todo' = bc_env
            /\ bc_pc' = "loop"
            /\ UNCHANGED bc_raised
       ELSE /\ bc_raised' = js_result.type
            /\ bc_pc' = "failed"
            /\ UNCHANGED <<bc_props, bc_todo>>
    /\ UNCHANGED bc_env
    /\ UNCHANGED <<cmVars, jsVars, cfgVars, icVars, hostVars, libVars, piVars>>

\* for key, value in env.iteritems(): the entries come in the order of the
\* dict, which the keys and the history of the dict decide: any order
env_entry ==
    /\ bc_pc = "loop"
    /\ \E e \in bc_todo :
          /\ bc_props' = AddProperty(bc_props, e)
          /\ bc_todo' = bc_todo \ {e}
    /\ UNCHANGED <<bc_env, bc_pc, bc_raised>>
    /\ UNCHANGED <<cmVars, jsVars, cfgVars, icVars, hostVars, libVars, piVars>>

\* return json_properties
return_properties ==
    /\ bc_pc = "loop" /\ bc_todo = {}
    /\ bc_pc' = "done"
    /\ UNCHANGED <<bc_env, bc_todo, bc_props, bc_raised>>
    /\ UNCHANGED <<cmVars, jsVars, cfgVars, icVars, hostVars, libVars, piVars>>

BcNext ==
    \/ StripComment
    \/ LoadJson
    \/ parse_json_returns
    \/ env_entry
    \/ return_properties

\* the pairs of the object node_extra.json holds
FileProperties == js_result.members

\* where a key of the result that the file does not hold comes from
AddedFromEnv(m) ==
    \E e \in bc_env :
        /\ e.isstr /\ m.value = JStr(e.value)
        /\ IF StartsWith(e.key, ChefPrefix)
           THEN m.key = SubSeq(e.key, Len(ChefPrefix) + 1, Len(e.key))
           ELSE m.key = CblPrefix \o e.key

\* C13: every pair of node_extra.json is in the mapping
\* build_chef_properties builds, at every pass of its loop and when it
\* returns; what else the mapping holds is X for a str entry chef_X of env
\* or cloudbiolinux_K for another str entry K.
C13_ExplicitNeverChanged ==
    bc_pc \in {"loop", "done"} =>
        /\ \A m \in FileProperties : m \in bc_props
        /\ \A m \in bc_props : m \in FileProperties \/ AddedFromEnv(m)

----------------------------------------------------------------------------
(* The specifications: one per entry point, the others idle                 *)

InitCloudman == CmInit /\ JsIdle /\ CfgIdle /\ IcIdle /\ HostIdle /\ LibIdle /\ PiIdle /\ BcIdle

SpecCloudman == InitCloudman /\ [][CmNext]_vars

InitJson == JsInit /\ CmIdle /\ CfgIdle /\ IcIdle /\ HostIdle /\ LibIdle /\ PiIdle /\ BcIdle

SpecJson == InitJson /\ [][JsNext]_vars

InitCustom == IcInit /\ CmIdle /\ JsIdle /\ HostIdle /\ LibIdle /\ PiIdle /\ BcIdle

SpecCustom == InitCustom /\ [][IcNext]_vars

InitLib == HostInit /\ LibInit /\ CmIdle /\ JsIdle /\ CfgIdle /\ IcIdle /\ PiIdle /\ BcIdle

SpecLib == InitLib /\ [][LibNext]_vars

InitInstall == PiInit /\ CmIdle /\ JsIdle /\ IcIdle /\ BcIdle

SpecInstall == InitInstall /\ [][PiNext]_vars

InitChef == BcInit /\ CmIdle /\ CfgIdle /\ IcIdle /\ HostIdle /\ LibIdle /\ PiIdle

SpecChef == InitChef /\ [][BcNext]_vars

====
